---------------------------- MODULE Spec2Model ----------------------------
(***************************************************************************)
(* Verification model of server/models.py: the SQLAlchemy schema of        *)
(* employees, meetings, projects, assignments and the employees_meetings   *)
(* association table, together with the unit-of-work behaviour that the    *)
(* declarations of that file select (cascade rules, secondary table,       *)
(* association proxies and their creators, foreign keys, primary keys).    *)
(*                                                                         *)
(* A state is the committed content of the five tables.  Every action of   *)
(* Spec is one unit of work followed by commit: the in-memory mutation,    *)
(* the flush the ORM derives from it, and the constraint checks of the     *)
(* declared schema.  A flush that violates a constraint rolls back and     *)
(* leaves the tables as they were.  SpecConc splits the units of work of   *)
(* two sessions into a load step and a flush step so that they interleave. *)
(***************************************************************************)
EXTENDS Integers, Sequences, FiniteSets

\* ---------------------------------------------------------------- bounds
\* the number of rows the five tables hold together; a single table holds
\* about a third of them, so that three tables can be full at once
MaxRows == 5
MaxTableRows == (MaxRows + 1) \div 3
\* the same for the two-session specification, whose states also hold what
\* each session has loaded
MaxConcRows == 4

\* Column values.  NULL is the SQL NULL of a nullable column.
NULL == 0
Names  == {"John Doe"}
Titles == {"Kickoff"}
Topics == {"Standup"}
Roles  == {"none"}
NoRole == "none"

VARIABLES
    employees,          \* table employees:  id -> name
    meetings,           \* table meetings:   id -> topic
    projects,           \* table projects:   id -> title
    assignments,        \* table assignments: id -> [employee_id, project_id, role]
    employees_meetings, \* table employees_meetings: row -> number of copies
    last,               \* the last unit of work and how it ended
    session             \* SpecConc: what each session has loaded and not yet flushed

vars == <<employees, meetings, projects, assignments, employees_meetings,
          last, session>>
tables == <<employees, meetings, projects, assignments, employees_meetings>>

\* ------------------------------------------------------- table helpers
Put(f, k, v) == [x \in DOMAIN f \cup {k} |-> IF x = k THEN v ELSE f[x]]
Drop(f, ks)  == [x \in DOMAIN f \ ks |-> f[x]]

RECURSIVE Sum(_)
Sum(f) ==
    IF DOMAIN f = {} THEN 0
    ELSE LET k == CHOOSE x \in DOMAIN f : TRUE
         IN f[k] + Sum(Drop(f, {k}))

RECURSIVE IdsAscending(_)
IdsAscending(S) ==
    IF S = {} THEN <<>>
    ELSE LET m == CHOOSE x \in S : \A y \in S : x <= y
         IN <<m>> \o IdsAscending(S \ {m})

Contains(s, x) == \E i \in 1..Len(s) : s[i] = x
Range(s) == {s[i] : i \in 1..Len(s)}

JoinRow(e, m) == [employee_id |-> e, meeting_id |-> m]

\* INSERT of the rows of the sequence ins into the association table
RECURSIVE InsertRows(_, _)
InsertRows(em, ins) ==
    IF ins = <<>> THEN em
    ELSE InsertRows(Put(em, Head(ins),
                        IF Head(ins) \in DOMAIN em THEN em[Head(ins)] + 1 ELSE 1),
                    Tail(ins))

\* whether table t has room for another row
Room(t) == Cardinality(DOMAIN t) < MaxTableRows

RowCount ==
    Cardinality(DOMAIN employees) + Cardinality(DOMAIN projects)
    + Cardinality(DOMAIN meetings) + Cardinality(DOMAIN assignments)
    + Sum(employees_meetings)

\* The id an INSERT assigns.  Ids only name rows; the model takes the least
\* id the table does not hold.
NewId(t) ==
    CHOOSE i \in 1..(Cardinality(DOMAIN t) + 1) :
        i \notin DOMAIN t /\ \A j \in 1..(i - 1) : j \in DOMAIN t

\* The ids a caller can hold for table t: those of its rows, and one that
\* names no row (an object whose row is gone, or an id made up).
Known(t) == DOMAIN t \cup {NewId(t)}

\* ------------------------------------------------- declared constraints
\* The assignments table without its two ForeignKey declarations
AssignmentFKNotDeclared(asg, emp, proj) == TRUE

\* assignments.employee_id -> employees.id and assignments.project_id ->
\* projects.id.  Both columns are nullable (no nullable=False), and a foreign
\* key constrains only the non-NULL values of its column.
AssignmentFKOk(asg, emp, proj) ==
    \A a \in DOMAIN asg :
        /\ asg[a].employee_id # NULL => asg[a].employee_id \in DOMAIN emp
        /\ asg[a].project_id # NULL => asg[a].project_id \in DOMAIN proj

\* employees_meetings without its two ForeignKey declarations
JoinFKNotDeclared(em, emp, meet) == TRUE

\* employees_meetings.employee_id -> employees.id, .meeting_id -> meetings.id
JoinFKOk(em, emp, meet) ==
    \A r \in DOMAIN em :
        /\ r.employee_id \in DOMAIN emp
        /\ r.meeting_id \in DOMAIN meet

\* employees_meetings without primary_key=True on its two columns
JoinPKNotDeclared(em) == TRUE

\* the composite primary key (employee_id, meeting_id) of employees_meetings
JoinPKOk(em) ==
    \A r \in DOMAIN em : em[r] = 1

\* How the flush of a unit of work ends against the declared schema.
FlushStatus(emp, proj, meet, asg, em) ==
    IF ~JoinPKOk(em) THEN "IntegrityError"
    ELSE IF ~(AssignmentFKOk(asg, emp, proj) /\ JoinFKOk(em, emp, meet))
         THEN "ReferentialIntegrityError"
         ELSE "ok"

Op(op, status, n, k) ==
    [op |-> op, status |-> status, n |-> n, k |-> k]

\* flush and commit: the new table contents are kept when every constraint
\* holds, and the transaction is rolled back otherwise
Commit(op, n, k, emp, proj, meet, asg, em) ==
    LET st == FlushStatus(emp, proj, meet, asg, em) IN
    /\ last' = Op(op, st, n, k)
    /\ IF st = "ok"
       THEN /\ employees' = emp
            /\ projects' = proj
            /\ meetings' = meet
            /\ assignments' = asg
            /\ employees_meetings' = em
       ELSE UNCHANGED tables

\* ----------------------------------------------------- derived views
\* Employee.assignments / Project.assignments: the Assignment rows whose
\* foreign key names the parent
EmployeeAssignments(asg, e) ==
    IdsAscending({a \in DOMAIN asg : asg[a].employee_id = e})
ProjectAssignments(asg, p) ==
    IdsAscending({a \in DOMAIN asg : asg[a].project_id = p})

\* Employee.projects = association_proxy('assignments', 'project')
EmployeeProjects(asg, e) ==
    [i \in 1..Len(EmployeeAssignments(asg, e)) |->
        asg[EmployeeAssignments(asg, e)[i]].project_id]
\* Project.employees = association_proxy('assignments', 'employee')
ProjectEmployees(asg, p) ==
    [i \in 1..Len(ProjectAssignments(asg, p)) |->
        asg[ProjectAssignments(asg, p)[i]].employee_id]

\* Employee.meetings / Meeting.employees through the secondary table
EmployeeMeetings(em, e) ==
    IdsAscending({r.meeting_id : r \in {x \in DOMAIN em : x.employee_id = e}})
MeetingEmployees(em, m) ==
    IdsAscending({r.employee_id : r \in {x \in DOMAIN em : x.meeting_id = m}})

\* ------------------------------------------------------------ Init
Idle == [pc |-> "idle", id |-> NULL, arg |-> NULL, asg |-> {}, em |-> {}]
Sessions == {"s1", "s2"}

Init ==
    /\ employees = << >>
    /\ meetings = << >>
    /\ projects = << >>
    /\ assignments = << >>
    /\ employees_meetings = << >>
    /\ last = Op("init", "ok", 0, 0)
    /\ session = [s \in Sessions |-> Idle]

\* ------------------------------------------- explicit insertion, update
\* db.session.add(Employee(name=...)); commit
CreateEmployee(name) ==
    /\ RowCount < MaxRows
    /\ Room(employees)
    /\ Commit("CreateEmployee", 0, 0,
              Put(employees, NewId(employees), name),
              projects, meetings, assignments, employees_meetings)
    /\ UNCHANGED session

CreateProject(title) ==
    /\ RowCount < MaxRows
    /\ Room(projects)
    /\ Commit("CreateProject", 0, 0, employees,
              Put(projects, NewId(projects), title), meetings, assignments,
              employees_meetings)
    /\ UNCHANGED session

CreateMeeting(topic) ==
    /\ RowCount < MaxRows
    /\ Room(meetings)
    /\ Commit("CreateMeeting", 0, 0, employees, projects,
              Put(meetings, NewId(meetings), topic), assignments,
              employees_meetings)
    /\ UNCHANGED session

\* A unique constraint on (employee_id, project_id), which the table does
\* not declare: a second row for a pair would not be stored.
AssignmentInsertUniquePair(asg, row) ==
    IF \E a \in DOMAIN asg : asg[a].employee_id = row.employee_id
                             /\ asg[a].project_id = row.project_id
    THEN asg
    ELSE Put(asg, NewId(asg), row)

\* INSERT INTO assignments: the primary key id is the only key of the table
AssignmentInsert(asg, row) == Put(asg, NewId(asg), row)

\* db.session.add(Assignment(role=..., employee_id=e, project_id=p)); commit.
\* e and p are whatever the caller passes: an id, of a row or not, or nothing.
CreateAssignment(e, p, role) ==
    /\ RowCount < MaxRows
    /\ Room(assignments)
    /\ Commit("CreateAssignment", 0, 0, employees, projects, meetings,
              AssignmentInsert(assignments,
                  [employee_id |-> e, project_id |-> p, role |-> role]),
              employees_meetings)
    /\ UNCHANGED session

\* assignment.employee_id = e; commit: a plain column write
UpdateAssignmentEmployee(a, e) ==
    /\ a \in DOMAIN assignments
    /\ Commit("UpdateAssignment", 0, 0, employees, projects,
              meetings,
              Put(assignments, a, [assignments[a] EXCEPT !.employee_id = e]),
              employees_meetings)
    /\ UNCHANGED session

\* assignment.project_id = p; commit
UpdateAssignmentProject(a, p) ==
    /\ a \in DOMAIN assignments
    /\ Commit("UpdateAssignment", 0, 0, employees, projects,
              meetings,
              Put(assignments, a, [assignments[a] EXCEPT !.project_id = p]),
              employees_meetings)
    /\ UNCHANGED session

AssignmentDelete(asg, a) == Drop(asg, {a})

\* db.session.delete(assignment); commit
DeleteAssignment(a) ==
    /\ a \in DOMAIN assignments
    /\ Commit("DeleteAssignment", 1, 0, employees, projects,
              meetings, AssignmentDelete(assignments, a), employees_meetings)
    /\ UNCHANGED session

\* ------------------------------------------------ association proxies
\* a creator that builds the Assignment and drops its argument
CreatorWithoutArgument(obj) ==
    [employee_id |-> NULL, project_id |-> NULL, role |-> NoRole]

\* Employee.projects creator: lambda project_obj: Assignment(project=project_obj)
EmployeeProjectsCreator(project_obj) ==
    [employee_id |-> NULL, project_id |-> project_obj, role |-> NoRole]

\* Project.employees creator: lambda employee_obj: Assignment(employee=employee_obj)
ProjectEmployeesCreator(employee_obj) ==
    [employee_id |-> employee_obj, project_id |-> NULL, role |-> NoRole]

\* employee.assignments.append(a): back_populates='employee' sets a.employee,
\* and the flush copies the parent's id into a.employee_id
EmployeeAssignmentsAppend(a, e) == [a EXCEPT !.employee_id = e]

\* project.assignments.append(a): back_populates='project'
ProjectAssignmentsAppend(a, p) == [a EXCEPT !.project_id = p]

\* employee.projects.append(project); commit.  The proxy calls its creator and
\* appends the new Assignment to employee.assignments; nothing looks the two
\* rows up before the INSERT.
AppendProject(e, p) ==
    /\ RowCount < MaxRows
    /\ Room(assignments)
    /\ Commit("AppendProject", 0, 0, employees, projects, meetings,
              AssignmentInsert(assignments,
                  EmployeeAssignmentsAppend(EmployeeProjectsCreator(p), e)),
              employees_meetings)
    /\ UNCHANGED session

\* project.employees.append(employee); commit
AppendEmployee(p, e) ==
    /\ RowCount < MaxRows
    /\ Room(assignments)
    /\ Commit("AppendEmployee", 0, 0, employees, projects, meetings,
              AssignmentInsert(assignments,
                  ProjectAssignmentsAppend(ProjectEmployeesCreator(e), p)),
              employees_meetings)
    /\ UNCHANGED session

\* employee.projects.append(Project(title=...)); commit.  The Project is a new
\* object that was never added to the session: the save-update cascade of
\* Employee.assignments (cascade='all') and of Assignment.project (the
\* default) carries it into the session, and the flush inserts it.
AppendNewProject(e, title) ==
    /\ RowCount + 2 <= MaxRows
    /\ Room(assignments)
    /\ Room(projects)
    /\ LET pid == NewId(projects) IN
       Commit("AppendNewProject", 0, 0, employees,
              Put(projects, pid, title), meetings,
              AssignmentInsert(assignments,
                  EmployeeAssignmentsAppend(EmployeeProjectsCreator(pid), e)),
              employees_meetings)
    /\ UNCHANGED session

\* project.employees.append(Employee(name=...)); commit
AppendNewEmployee(p, name) ==
    /\ RowCount + 2 <= MaxRows
    /\ Room(assignments)
    /\ Room(employees)
    /\ LET eid == NewId(employees) IN
       Commit("AppendNewEmployee", 0, 0,
              Put(employees, eid, name), projects, meetings,
              AssignmentInsert(assignments,
                  ProjectAssignmentsAppend(ProjectEmployeesCreator(eid), p)),
              employees_meetings)
    /\ UNCHANGED session

\* An Assignment taken out of employee.assignments or project.assignments is
\* an orphan; cascade='all, delete-orphan' deletes it at the flush.
OrphanRemove(asg, a) == Drop(asg, {a})

\* employee.projects.remove(project); commit.  The proxy removes the first
\* Assignment of employee.assignments whose project is the one given.
RemoveProject(e, p) ==
    /\ e \in DOMAIN employees
    /\ Contains(EmployeeProjects(assignments, e), p)
    /\ LET as == EmployeeAssignments(assignments, e)
           i == CHOOSE j \in 1..Len(as) :
                    /\ assignments[as[j]].project_id = p
                    /\ \A h \in 1..(j - 1) : assignments[as[h]].project_id # p
       IN Commit("RemoveProject", 1, 0, employees, projects, meetings,
                 OrphanRemove(assignments, as[i]), employees_meetings)
    /\ UNCHANGED session

\* project.employees.remove(employee); commit
RemoveEmployee(p, e) ==
    /\ p \in DOMAIN projects
    /\ Contains(ProjectEmployees(assignments, p), e)
    /\ LET as == ProjectAssignments(assignments, p)
           i == CHOOSE j \in 1..Len(as) :
                    /\ assignments[as[j]].employee_id = e
                    /\ \A h \in 1..(j - 1) : assignments[as[h]].employee_id # e
       IN Commit("RemoveEmployee", 1, 0, employees, projects, meetings,
                 OrphanRemove(assignments, as[i]), employees_meetings)
    /\ UNCHANGED session

\* ------------------------------------------------------------- deletes
\* Employee.assignments without a delete cascade: the ORM keeps the rows and
\* sets their employee_id to NULL
EmployeeDeleteNullify(asg, e) ==
    [a \in DOMAIN asg |->
        IF asg[a].employee_id = e THEN [asg[a] EXCEPT !.employee_id = NULL]
        ELSE asg[a]]

\* Project.assignments without a delete cascade
ProjectDeleteNullify(asg, p) ==
    [a \in DOMAIN asg |->
        IF asg[a].project_id = p THEN [asg[a] EXCEPT !.project_id = NULL]
        ELSE asg[a]]

\* Meeting.employees declared viewonly: the flush leaves the secondary table
\* alone
SecondaryDeleteIgnored(em, m) == em

\* Employee.assignments, cascade='all, delete-orphan': the Assignments of a
\* deleted Employee are deleted with it
EmployeeDeleteCascade(asg, e) ==
    Drop(asg, {a \in DOMAIN asg : asg[a].employee_id = e})

\* Project.assignments, cascade='all, delete-orphan'
ProjectDeleteCascade(asg, p) ==
    Drop(asg, {a \in DOMAIN asg : asg[a].project_id = p})

\* Employee.meetings, secondary=employee_meetings: the association rows of a
\* deleted Employee are deleted with it
SecondaryDeleteEmployee(em, e) ==
    Drop(em, {r \in DOMAIN em : r.employee_id = e})

\* Meeting.employees, secondary=employee_meetings
SecondaryDeleteMeeting(em, m) ==
    Drop(em, {r \in DOMAIN em : r.meeting_id = m})

\* db.session.delete(employee); commit
DeleteEmployee(e) ==
    /\ e \in DOMAIN employees
    /\ Commit("DeleteEmployee",
              Cardinality(Range(EmployeeProjects(assignments, e)) \ {NULL}),
              Len(EmployeeMeetings(employees_meetings, e)),
              Drop(employees, {e}), projects, meetings,
              EmployeeDeleteCascade(assignments, e),
              SecondaryDeleteEmployee(employees_meetings, e))
    /\ UNCHANGED session

\* db.session.delete(project); commit
DeleteProject(p) ==
    /\ p \in DOMAIN projects
    /\ Commit("DeleteProject",
              Cardinality(Range(ProjectEmployees(assignments, p)) \ {NULL}), 0,
              employees, Drop(projects, {p}), meetings,
              ProjectDeleteCascade(assignments, p), employees_meetings)
    /\ UNCHANGED session

\* db.session.delete(meeting); commit
DeleteMeeting(m) ==
    /\ m \in DOMAIN meetings
    /\ Commit("DeleteMeeting", 0,
              Len(MeetingEmployees(employees_meetings, m)),
              employees, projects, Drop(meetings, {m}), assignments,
              SecondaryDeleteMeeting(employees_meetings, m))
    /\ UNCHANGED session

\* --------------------------------------------- Employee <-> Meeting
\* The items of a collection the flush sees as added: those of the appended
\* ones that the collection did not hold when it was loaded.  The collection
\* is a list: an item appended twice is in it twice.
HistoryAdded(loaded, appended) ==
    SelectSeq(appended, LAMBDA x : ~Contains(loaded, x))

\* The other side of back_populates receives every append.  When its
\* collection is loaded the flush sees HistoryAdded of it; when it is not,
\* the appends are kept as pending and all of them count as added.
BackrefAdded(loaded, appended, isLoaded) ==
    IF isLoaded THEN HistoryAdded(loaded, appended) ELSE appended

\* The rows one flush inserts into the secondary table for the two sides of
\* the relationship: all rows of the side processed first, and of the other
\* side those whose pair the first side has not processed.
SecondaryInserts(first, second) ==
    first \o SelectSeq(second, LAMBDA r : r \notin Range(first))

Times(x, twice) == IF twice THEN <<x, x>> ELSE <<x>>

\* employee.meetings.append(meeting), once or twice, then commit
AppendMeeting(e, m, twice, reverseLoaded) ==
    /\ RowCount < MaxRows
    /\ LET added == HistoryAdded(EmployeeMeetings(employees_meetings, e),
                                 Times(m, twice))
           back  == BackrefAdded(MeetingEmployees(employees_meetings, m),
                                 Times(e, twice), reverseLoaded)
           ins   == SecondaryInserts(
                        [i \in 1..Len(added) |-> JoinRow(e, added[i])],
                        [i \in 1..Len(back) |-> JoinRow(back[i], m)])
       IN Commit("AppendMeeting", 0, Len(ins), employees, projects,
                 meetings, assignments, InsertRows(employees_meetings, ins))
    /\ UNCHANGED session

\* meeting.employees.append(employee), once or twice, then commit
AppendMeetingEmployee(m, e, twice, reverseLoaded) ==
    /\ RowCount < MaxRows
    /\ LET added == HistoryAdded(MeetingEmployees(employees_meetings, m),
                                 Times(e, twice))
           back  == BackrefAdded(EmployeeMeetings(employees_meetings, e),
                                 Times(m, twice), reverseLoaded)
           ins   == SecondaryInserts(
                        [i \in 1..Len(added) |-> JoinRow(added[i], m)],
                        [i \in 1..Len(back) |-> JoinRow(e, back[i])])
       IN Commit("AppendMeetingEmployee", 0, Len(ins), employees,
                 projects, meetings, assignments,
                 InsertRows(employees_meetings, ins))
    /\ UNCHANGED session

\* employee.meetings.append(meeting); meeting.employees.append(employee);
\* commit.  Each append reaches the other side through back_populates, so
\* both lists, loaded by the access, hold the new item twice.
AppendBothSides(e, m) ==
    /\ RowCount < MaxRows
    /\ LET added == HistoryAdded(EmployeeMeetings(employees_meetings, e),
                                 Times(m, TRUE))
           back  == BackrefAdded(MeetingEmployees(employees_meetings, m),
                                 Times(e, TRUE), TRUE)
           ins   == SecondaryInserts(
                        [i \in 1..Len(added) |-> JoinRow(e, added[i])],
                        [i \in 1..Len(back) |-> JoinRow(back[i], m)])
       IN Commit("AppendBothSides", 0, Len(ins), employees, projects,
                 meetings, assignments, InsertRows(employees_meetings, ins))
    /\ UNCHANGED session

\* The association row a removal from either collection deletes
SecondaryRemove(em, e, m) == Drop(em, {JoinRow(e, m)})

\* employee.meetings.remove(meeting); commit
RemoveMeeting(e, m) ==
    /\ e \in DOMAIN employees
    /\ Contains(EmployeeMeetings(employees_meetings, e), m)
    /\ Commit("RemoveMeeting", 0, 1, employees, projects, meetings,
              assignments, SecondaryRemove(employees_meetings, e, m))
    /\ UNCHANGED session

\* meeting.employees.remove(employee); commit
RemoveMeetingEmployee(m, e) ==
    /\ m \in DOMAIN meetings
    /\ Contains(MeetingEmployees(employees_meetings, m), e)
    /\ Commit("RemoveMeetingEmployee", 0, 1, employees, projects,
              meetings, assignments,
              SecondaryRemove(employees_meetings, e, m))
    /\ UNCHANGED session

Next ==
    \/ \E name \in Names : CreateEmployee(name)
    \/ \E title \in Titles : CreateProject(title)
    \/ \E topic \in Topics : CreateMeeting(topic)
    \/ \E e \in Known(employees) \cup {NULL}, p \in Known(projects) \cup {NULL},
          role \in Roles : CreateAssignment(e, p, role)
    \/ \E a \in DOMAIN assignments, e \in Known(employees) \cup {NULL} :
          UpdateAssignmentEmployee(a, e)
    \/ \E a \in DOMAIN assignments, p \in Known(projects) \cup {NULL} :
          UpdateAssignmentProject(a, p)
    \/ \E a \in DOMAIN assignments : DeleteAssignment(a)
    \/ \E e \in Known(employees), p \in Known(projects) : AppendProject(e, p)
    \/ \E e \in Known(employees), p \in Known(projects) : AppendEmployee(p, e)
    \/ \E e \in Known(employees), title \in Titles : AppendNewProject(e, title)
    \/ \E p \in Known(projects), name \in Names : AppendNewEmployee(p, name)
    \/ \E e \in DOMAIN employees, p \in DOMAIN projects : RemoveProject(e, p)
    \/ \E e \in DOMAIN employees, p \in DOMAIN projects : RemoveEmployee(p, e)
    \/ \E e \in DOMAIN employees : DeleteEmployee(e)
    \/ \E p \in DOMAIN projects : DeleteProject(p)
    \/ \E m \in DOMAIN meetings : DeleteMeeting(m)
    \/ \E e \in DOMAIN employees, m \in Known(meetings), twice \in BOOLEAN,
          reverseLoaded \in BOOLEAN : AppendMeeting(e, m, twice, reverseLoaded)
    \/ \E e \in Known(employees), m \in DOMAIN meetings, twice \in BOOLEAN,
          reverseLoaded \in BOOLEAN :
              AppendMeetingEmployee(m, e, twice, reverseLoaded)
    \/ \E e \in DOMAIN employees, m \in DOMAIN meetings : AppendBothSides(e, m)
    \/ \E e \in DOMAIN employees, m \in DOMAIN meetings : RemoveMeeting(e, m)
    \/ \E e \in DOMAIN employees, m \in DOMAIN meetings :
          RemoveMeetingEmployee(m, e)

Spec == Init /\ [][Next]_vars

\* ------------------------------------------------- two sessions
\* In SpecConc a unit of work that reads before it writes takes two steps: the
\* session loads what the operation touches, and later flushes and commits.
\* The other session may commit in between.  The flush and its commit are one
\* step: the statements of a flush run in one transaction of the store.
Loaded(pc, id, arg, asg, em) ==
    [pc |-> pc, id |-> id, arg |-> arg, asg |-> asg, em |-> em]

\* The flush of a delete issues its DELETEs by primary key for the rows the
\* session loaded; a row that is no longer there makes the flush fail.
LoadedRowsPresent(ses, parent) ==
    /\ ses.id \in DOMAIN parent
    /\ ses.asg \subseteq DOMAIN assignments
    /\ ses.em \subseteq DOMAIN employees_meetings

\* the end of a unit of work of session s with the tables as they are
Abandon(s, op, status) ==
    /\ last' = Op(op, status, 0, 0)
    /\ session' = [session EXCEPT ![s] = Idle]
    /\ UNCHANGED tables

\* db.session.delete(employee): the cascade loads employee.assignments and
\* employee.meetings
LoadDeleteEmployee(s, e) ==
    /\ session[s].pc = "idle"
    /\ e \in DOMAIN employees
    /\ session' = [session EXCEPT ![s] =
          Loaded("DeleteEmployee", e, NULL,
                 Range(EmployeeAssignments(assignments, e)),
                 {r \in DOMAIN employees_meetings : r.employee_id = e})]
    /\ UNCHANGED <<tables, last>>

\* commit of the delete: DELETE of the loaded association rows, of the loaded
\* Assignments and of the Employee row
FlushDeleteEmployee(s) ==
    /\ session[s].pc = "DeleteEmployee"
    /\ IF LoadedRowsPresent(session[s], employees)
       THEN /\ Commit("DeleteEmployee", 0, 0,
                      Drop(employees, {session[s].id}), projects, meetings,
                      Drop(assignments, session[s].asg),
                      Drop(employees_meetings, session[s].em))
            /\ session' = [session EXCEPT ![s] = Idle]
       ELSE Abandon(s, "DeleteEmployee", "StaleDataError")

\* db.session.delete(project): the cascade loads project.assignments
LoadDeleteProject(s, p) ==
    /\ session[s].pc = "idle"
    /\ p \in DOMAIN projects
    /\ session' = [session EXCEPT ![s] =
          Loaded("DeleteProject", p, NULL,
                 Range(ProjectAssignments(assignments, p)), {})]
    /\ UNCHANGED <<tables, last>>

FlushDeleteProject(s) ==
    /\ session[s].pc = "DeleteProject"
    /\ IF LoadedRowsPresent(session[s], projects)
       THEN /\ Commit("DeleteProject", 0, 0,
                      employees, Drop(projects, {session[s].id}), meetings,
                      Drop(assignments, session[s].asg), employees_meetings)
            /\ session' = [session EXCEPT ![s] = Idle]
       ELSE Abandon(s, "DeleteProject", "StaleDataError")

\* db.session.delete(meeting): loads meeting.employees
LoadDeleteMeeting(s, m) ==
    /\ session[s].pc = "idle"
    /\ m \in DOMAIN meetings
    /\ session' = [session EXCEPT ![s] =
          Loaded("DeleteMeeting", m, NULL, {},
                 {r \in DOMAIN employees_meetings : r.meeting_id = m})]
    /\ UNCHANGED <<tables, last>>

FlushDeleteMeeting(s) ==
    /\ session[s].pc = "DeleteMeeting"
    /\ IF LoadedRowsPresent(session[s], meetings)
       THEN /\ Commit("DeleteMeeting", 0, 0,
                      employees, projects, Drop(meetings, {session[s].id}),
                      assignments, Drop(employees_meetings, session[s].em))
            /\ session' = [session EXCEPT ![s] = Idle]
       ELSE Abandon(s, "DeleteMeeting", "StaleDataError")

\* employee.projects.append(project) on two objects the session has loaded
LoadAppendProject(s, e, p) ==
    /\ session[s].pc = "idle"
    /\ e \in DOMAIN employees
    /\ p \in DOMAIN projects
    /\ session' = [session EXCEPT ![s] =
          Loaded("AppendProject", e, p, {}, {})]
    /\ UNCHANGED <<tables, last>>

\* commit of the append: INSERT of the Assignment the creator built
FlushAppendProject(s) ==
    /\ session[s].pc = "AppendProject"
    /\ RowCount < MaxConcRows
    /\ Room(assignments)
    /\ Commit("AppendProject", 0, 0, employees, projects, meetings,
              AssignmentInsert(assignments,
                  EmployeeAssignmentsAppend(
                      EmployeeProjectsCreator(session[s].arg), session[s].id)),
              employees_meetings)
    /\ session' = [session EXCEPT ![s] = Idle]

\* employee.meetings.append(meeting): the access loads employee.meetings
LoadAppendMeeting(s, e, m) ==
    /\ session[s].pc = "idle"
    /\ e \in DOMAIN employees
    /\ m \in DOMAIN meetings
    /\ session' = [session EXCEPT ![s] =
          Loaded("AppendMeeting", e, m, {},
                 {r \in DOMAIN employees_meetings : r.employee_id = e})]
    /\ UNCHANGED <<tables, last>>

\* commit of the append: INSERT of the association rows the flush sees as
\* added to the collection as it was loaded
FlushAppendMeeting(s) ==
    /\ session[s].pc = "AppendMeeting"
    /\ RowCount < MaxConcRows
    /\ LET e == session[s].id
           m == session[s].arg
           added == HistoryAdded(IdsAscending({r.meeting_id : r \in session[s].em}),
                                 <<m>>)
           ins == SecondaryInserts([i \in 1..Len(added) |-> JoinRow(e, added[i])],
                                   << >>)
       IN Commit("AppendMeeting", 0, 0, employees, projects, meetings,
                 assignments, InsertRows(employees_meetings, ins))
    /\ session' = [session EXCEPT ![s] = Idle]

ConcRoom(t) ==
    RowCount < MaxConcRows /\ Cardinality(DOMAIN t) < MaxConcRows \div 2

NextConc ==
    \/ \E name \in Names : ConcRoom(employees) /\ CreateEmployee(name)
    \/ \E title \in Titles : ConcRoom(projects) /\ CreateProject(title)
    \/ \E topic \in Topics : ConcRoom(meetings) /\ CreateMeeting(topic)
    \/ \E s \in Sessions, e \in DOMAIN employees : LoadDeleteEmployee(s, e)
    \/ \E s \in Sessions : FlushDeleteEmployee(s)
    \/ \E s \in Sessions, p \in DOMAIN projects : LoadDeleteProject(s, p)
    \/ \E s \in Sessions : FlushDeleteProject(s)
    \/ \E s \in Sessions, m \in DOMAIN meetings : LoadDeleteMeeting(s, m)
    \/ \E s \in Sessions : FlushDeleteMeeting(s)
    \/ \E s \in Sessions, e \in DOMAIN employees, p \in DOMAIN projects :
          LoadAppendProject(s, e, p)
    \/ \E s \in Sessions : FlushAppendProject(s)
    \/ \E s \in Sessions, e \in DOMAIN employees, m \in DOMAIN meetings :
          LoadAppendMeeting(s, e, m)
    \/ \E s \in Sessions : FlushAppendMeeting(s)

SpecConc == Init /\ [][NextConc]_vars

\* ------------------------------------------------------------- claims
Ok(l) == l.status = "ok"
Failed(l) == l.status = "ReferentialIntegrityError"
Pair(e, p) == [employee_id |-> e, project_id |-> p, role |-> NoRole]
PairRows(asg, e, p) ==
    {a \in DOMAIN asg : asg[a].employee_id = e /\ asg[a].project_id = p}

\* C1: in every reachable state every Assignment row has an employee_id that
\* is the id of an Employee row and a project_id that is the id of a Project
\* row.
C1_EveryAssignmentHasBothParents ==
    \A a \in DOMAIN assignments :
        /\ assignments[a].employee_id \in DOMAIN employees
        /\ assignments[a].project_id \in DOMAIN projects

\* C2: deleting Employee E removes exactly the Assignments whose employee_id
\* is E and the association rows whose employee_id is E, removes E, and leaves
\* every Project and every Meeting as it was.
C2_DeleteEmployeeCascades ==
    [][\A e \in DOMAIN employees :
          DeleteEmployee(e) =>
              /\ Ok(last')
              /\ employees' = Drop(employees, {e})
              /\ assignments' =
                    Drop(assignments, {a \in DOMAIN assignments :
                                          assignments[a].employee_id = e})
              /\ employees_meetings' =
                    Drop(employees_meetings,
                         {r \in DOMAIN employees_meetings : r.employee_id = e})
              /\ projects' = projects
              /\ meetings' = meetings]_vars

\* an Employee with a linked Project and a linked Meeting has been deleted,
\* and both are still there
C2_Witness ==
    /\ last.op = "DeleteEmployee" /\ Ok(last)
    /\ last.n >= 1 /\ last.k >= 1
    /\ projects # << >> /\ meetings # << >>

\* C3: deleting Project P removes exactly the Assignments whose project_id is
\* P, removes P, and leaves every Employee as it was.
C3_DeleteProjectCascades ==
    [][\A p \in DOMAIN projects :
          DeleteProject(p) =>
              /\ Ok(last')
              /\ projects' = Drop(projects, {p})
              /\ assignments' =
                    Drop(assignments, {a \in DOMAIN assignments :
                                          assignments[a].project_id = p})
              /\ employees' = employees]_vars

\* a Project with a linked Employee has been deleted while an Assignment of
\* another Project stays
C3_Witness ==
    /\ last.op = "DeleteProject" /\ Ok(last)
    /\ last.n >= 1
    /\ employees # << >>
    /\ \E a \in DOMAIN assignments : assignments[a].project_id # NULL

\* C4: deleting Meeting M removes exactly the association rows whose
\* meeting_id is M and no Employee; deleting an Employee removes no Meeting;
\* removing an item from either collection removes exactly one association
\* row and neither entity.
C4_UnlinkKeepsOtherSide ==
    [][/\ \A m \in DOMAIN meetings :
            DeleteMeeting(m) =>
                /\ Ok(last')
                /\ meetings' = Drop(meetings, {m})
                /\ employees_meetings' =
                      Drop(employees_meetings,
                           {r \in DOMAIN employees_meetings : r.meeting_id = m})
                /\ employees' = employees
       /\ \A e \in DOMAIN employees :
            DeleteEmployee(e) => meetings' = meetings
       /\ \A e \in DOMAIN employees, m \in DOMAIN meetings :
            (RemoveMeeting(e, m) \/ RemoveMeetingEmployee(m, e)) =>
                /\ Ok(last')
                /\ employees_meetings' =
                      Drop(employees_meetings, {JoinRow(e, m)})
                /\ employees' = employees
                /\ meetings' = meetings]_vars

\* a Meeting with a linked Employee has been deleted and the Employee stays
C4_Witness ==
    /\ last.op = "DeleteMeeting" /\ Ok(last)
    /\ last.k >= 1
    /\ employees # << >>

\* C5: once P has been appended to E.projects, E.projects contains P and
\* P.employees contains E; once E has been appended to P.employees,
\* P.employees contains E and E.projects contains P.
C5_AppendSeenFromBothSides ==
    [][\A e \in Known(employees), p \in Known(projects) :
          ((AppendProject(e, p) \/ AppendEmployee(p, e)) /\ Ok(last')) =>
              /\ Contains(EmployeeProjects(assignments', e), p)
              /\ Contains(ProjectEmployees(assignments', p), e)]_vars

\* a Project has been appended to E.projects and each view shows the other
C5_Witness ==
    /\ last.op = "AppendProject" /\ Ok(last)
    /\ \E e \in DOMAIN employees, p \in DOMAIN projects :
          /\ Contains(EmployeeProjects(assignments, e), p)
          /\ Contains(ProjectEmployees(assignments, p), e)

C7_AppendAddsOneRow ==
    [][\A e \in Known(employees), p \in Known(projects) :
          ((AppendProject(e, p) \/ AppendEmployee(p, e)) /\ Ok(last')) =>
              /\ \E a \in DOMAIN assignments' \ DOMAIN assignments :
                    assignments' = Put(assignments, a, Pair(e, p))
              /\ Cardinality(PairRows(assignments', e, p))
                    = Cardinality(PairRows(assignments, e, p)) + 1]_vars

\* the same pair has been appended again and holds two rows
C7_Witness ==
    /\ last.op \in {"AppendProject", "AppendEmployee"} /\ Ok(last)
    /\ \E e \in DOMAIN employees, p \in DOMAIN projects :
          Cardinality(PairRows(assignments, e, p)) >= 2

============================================================================
